---- MODULE Spec2Model ----
(***************************************************************************)
(* StakeRequestHandler.persist (src/src/handlers/StakeRequestHandler.ts)   *)
(* as a state machine.                                                      *)
(*                                                                          *)
(* One persist call is in flight at a time.  The call parses every          *)
(* transaction and issues its repository lookup synchronously (the body of  *)
(* each async callback up to its first await), the lookups complete in any  *)
(* order, the saves are issued together once every lookup has resolved,     *)
(* and the saves complete in any order.  Continuations that JavaScript      *)
(* runs as microtasks right after an I/O completion are part of the action  *)
(* of that completion.                                                      *)
(*                                                                          *)
(* Strings that the code parses are sequences of one-character strings, so  *)
(* that parsing is computed and not assumed.                                *)
(***************************************************************************)
EXTENDS Integers, Sequences, FiniteSets, TLC

(***************************************************************************)
(* Bounds                                                                   *)
(***************************************************************************)
\* longest batch handed to persist
MaxBatch == 2
\* how many times a caller repeats one batch
MaxRepeat == 3

(***************************************************************************)
(* BigNumber (bignumber.js, default configuration: DEBUG unset)             *)
(***************************************************************************)
DigitChars == <<"0", "1", "2", "3", "4", "5", "6", "7", "8", "9">>

IsDigit(c) == \E d \in 1..10 : DigitChars[d] = c

DigitVal(c) == (CHOOSE d \in 1..10 : DigitChars[d] = c) - 1

\* the value new BigNumber(s) holds when s is not a number
NaN == -1

RECURSIVE DecimalValue(_)
DecimalValue(s) ==
  IF s = <<>> THEN 0
  ELSE 10 * DecimalValue(SubSeq(s, 1, Len(s) - 1)) + DigitVal(s[Len(s)])

\* new BigNumber(s): the value of a decimal string, NaN for any other string
\* (the constructor does not throw unless BigNumber.DEBUG is set)
BigNumber(s) ==
  IF s # <<>> /\ \A k \in 1..Len(s) : IsDigit(s[k])
  THEN DecimalValue(s)
  ELSE NaN

\* a.gt(b): false when either operand is NaN
gt(a, b) == a # NaN /\ b # NaN /\ a > b

(***************************************************************************)
(* Utils.toChecksumAddress (web3-utils)                                     *)
(***************************************************************************)
LowerHex == <<"a", "b", "c", "d", "e", "f">>
UpperHex == <<"A", "B", "C", "D", "E", "F">>

IsHexChar(c) ==
  \/ IsDigit(c)
  \/ \E k \in 1..6 : LowerHex[k] = c \/ UpperHex[k] = c

ToLowerChar(c) ==
  IF \E k \in 1..6 : UpperHex[k] = c
  THEN LowerHex[CHOOSE k \in 1..6 : UpperHex[k] = c]
  ELSE c

ToUpperChar(c) ==
  IF \E k \in 1..6 : LowerHex[k] = c
  THEN UpperHex[CHOOSE k \in 1..6 : LowerHex[k] = c]
  ELSE c

ToLower(a) == [k \in 1..Len(a) |-> ToLowerChar(a[k])]

\* web3-utils rejects what is not a hex address
IsAddress(a) == a # <<>> /\ \A k \in 1..Len(a) : IsHexChar(a[k])

\* The positions the checksum writes in upper case.  web3-utils takes them
\* from the keccak256 digest of the lower-cased address; the digest is stood
\* for by the parity of the position plus the value of the first character.
ChecksumUpper(low, k) ==
  LET seed == IF IsDigit(low[1]) THEN DigitVal(low[1])
              ELSE CHOOSE j \in 1..6 : LowerHex[j] = low[1]
  IN (seed + k) % 2 = 0

\* the checksummed form of a valid address: lower-cased, then re-cased
ChecksumOf(a) ==
  LET low == ToLower(a)
  IN [k \in 1..Len(low) |->
        IF ChecksumUpper(low, k) THEN ToUpperChar(low[k]) ELSE low[k]]

\* Utils.toChecksumAddress throws on an invalid address
ChecksumThrows(a) == ~IsAddress(a)

toChecksumAddress(a) == ChecksumOf(a)

(***************************************************************************)
(* Transactions handed to persist                                           *)
(***************************************************************************)
Undefined == "undefined"

Terms1 ==
  [amount |-> <<"1", "0">>, beneficiary |-> <<"a", "b">>,
   gasPrice |-> <<"2">>, gasLimit |-> <<"3", "0">>, nonce |-> <<"1">>,
   gateway |-> <<"C", "D">>, staker |-> <<"e", "F">>,
   stakerProxy |-> <<"1", "a">>]

Terms2 ==
  [amount |-> <<"0", "9", "9">>, beneficiary |-> <<"b", "a">>,
   gasPrice |-> <<"5">>, gasLimit |-> <<"6", "0">>, nonce |-> <<"0", "7">>,
   gateway |-> <<"d", "c">>, staker |-> <<"F", "E">>,
   stakerProxy |-> <<"2", "B">>]

Transaction(hash, terms, block) ==
  [stakeRequestHash |-> hash, amount |-> terms.amount,
   beneficiary |-> terms.beneficiary, gasPrice |-> terms.gasPrice,
   gasLimit |-> terms.gasLimit, nonce |-> terms.nonce,
   gateway |-> terms.gateway, staker |-> terms.staker,
   stakerProxy |-> terms.stakerProxy, blockNumber |-> block]

Block100 == <<"1", "0", "0">>
Block105 == <<"1", "0", "5">>

TxA100 == Transaction("0xAA", Terms1, Block100)
TxA105 == Transaction("0xAA", Terms2, Block105)
TxB100 == Transaction("0xBB", Terms1, Block100)
\* a beneficiary that is no hex address
TxBadAddress ==
  Transaction("0xAA", [Terms1 EXCEPT !.beneficiary = <<"a", "g">>], Block105)
\* an amount that is no decimal string
TxBadNumber ==
  Transaction("0xBB", [Terms2 EXCEPT !.amount = <<"1", "x">>], Block100)

Transactions == {TxA100, TxA105, TxB100, TxBadAddress, TxBadNumber}

Hashes == {t.stakeRequestHash : t \in Transactions}

Batches == UNION {[1..n -> Transactions] : n \in 0..MaxBatch}

NumericFields(t) ==
  <<t.amount, t.gasPrice, t.gasLimit, t.nonce, t.blockNumber>>

AddressFields(t) == <<t.beneficiary, t.gateway, t.staker, t.stakerProxy>>

(***************************************************************************)
(* The body of the callback of persist                                      *)
(***************************************************************************)
\* lines 56-65 throw where toChecksumAddress throws
ParseThrows(t) == \E k \in 1..4 : ChecksumThrows(AddressFields(t)[k])

\* new StakeRequest(...) with gasPrice and gasLimit passed in each other's place
NewStakeRequestSwapped(t) ==
  [stakeRequestHash |-> t.stakeRequestHash,
   amount |-> BigNumber(t.amount),
   beneficiary |-> toChecksumAddress(t.beneficiary),
   gasPrice |-> BigNumber(t.gasLimit),
   gasLimit |-> BigNumber(t.gasPrice),
   nonce |-> BigNumber(t.nonce),
   gateway |-> toChecksumAddress(t.gateway),
   staker |-> toChecksumAddress(t.staker),
   stakerProxy |-> toChecksumAddress(t.stakerProxy),
   blockNumber |-> BigNumber(t.blockNumber),
   messageHash |-> Undefined]

\* new StakeRequest(...) of lines 74-85; messageHash is not passed
NewStakeRequest(t) ==
  [stakeRequestHash |-> t.stakeRequestHash,
   amount |-> BigNumber(t.amount),
   beneficiary |-> toChecksumAddress(t.beneficiary),
   gasPrice |-> BigNumber(t.gasPrice),
   gasLimit |-> BigNumber(t.gasLimit),
   nonce |-> BigNumber(t.nonce),
   gateway |-> toChecksumAddress(t.gateway),
   staker |-> toChecksumAddress(t.staker),
   stakerProxy |-> toChecksumAddress(t.stakerProxy),
   blockNumber |-> BigNumber(t.blockNumber),
   messageHash |-> Undefined]

\* line 68 with gte in the place of gt
AlreadyPresentGte(t, existing) ==
  /\ existing # {}
  /\ LET b == BigNumber(t.blockNumber)
         stored == (CHOOSE r \in existing : TRUE).blockNumber
     IN b # NaN /\ stored # NaN /\ b >= stored

\* the condition of line 68; existing is the set holding what get returned
AlreadyPresent(t, existing) ==
  /\ existing # {}
  /\ gt(BigNumber(t.blockNumber), (CHOOSE r \in existing : TRUE).blockNumber)

\* lines 68-86 with the stored record overwritten by the parsed fields
ResolveOverwrites(t, existing) == NewStakeRequest(t)

\* lines 68-86 without line 71: the stored messageHash is kept
ResolveKeepsMessageHash(t, existing) ==
  IF AlreadyPresent(t, existing)
  THEN [(CHOOSE r \in existing : TRUE) EXCEPT
          !.blockNumber = BigNumber(t.blockNumber)]
  ELSE NewStakeRequest(t)

\* lines 68-86 without line 70: the stored blockNumber is kept
ResolveKeepsBlockNumber(t, existing) ==
  IF AlreadyPresent(t, existing)
  THEN [(CHOOSE r \in existing : TRUE) EXCEPT !.messageHash = Undefined]
  ELSE NewStakeRequest(t)

\* lines 68-86: the record the callback returns
Resolve(t, existing) ==
  IF AlreadyPresent(t, existing)
  THEN [(CHOOSE r \in existing : TRUE) EXCEPT
          !.blockNumber = BigNumber(t.blockNumber),
          !.messageHash = Undefined]
  ELSE NewStakeRequest(t)

\* which branch of lines 68-86 the callback took
Branch(t, existing) ==
  IF AlreadyPresent(t, existing) THEN "mutate"
  ELSE IF existing # {} THEN "replace"
  ELSE "new"

(***************************************************************************)
(* StakeRequestRepository                                                   *)
(***************************************************************************)
\* get(stakeRequestHash): the stored record, or none
RepositoryGet(st, hash) == {r \in st : r.stakeRequestHash = hash}

\* save(record): upsert by primary key
RepositorySave(st, rec) ==
  {r \in st : r.stakeRequestHash # rec.stakeRequestHash} \cup {rec}

\* line 67 with the lookup made under a fixed key
GetStakeRequestOfFirstHash(st, t) == RepositoryGet(st, "0xAA")

\* line 67: this.stakeRequestRepository.get(stakeRequestHash)
GetStakeRequest(st, t) == RepositoryGet(st, t.stakeRequestHash)

\* line 93 with a stored record removed and its replacement never written
RemoveStoredModel(st, m) ==
  IF RepositoryGet(st, m.stakeRequestHash) # {}
  THEN {r \in st : r.stakeRequestHash # m.stakeRequestHash}
  ELSE RepositorySave(st, m)

\* line 93: this.stakeRequestRepository.save(models[i])
SaveModel(st, m) == RepositorySave(st, m)

(***************************************************************************)
(* State                                                                    *)
(***************************************************************************)
VARIABLES
  store,         \* the records the repository holds
  phase,         \* "idle", "resolving", "saving", "resolved" or "rejected"
  transactions,  \* the argument of the call in flight (or of the last call)
  callbacks,     \* per transaction: "threw", "awaiting", "returned", "failed"
  getOrder,      \* the indices of the lookups, in the order they completed
  found,         \* per returned callback: what get returned, as a set
  models,        \* per returned callback: the record it returned
  savePromises,  \* the saves issued, in the order of the loop of lines 91-94
  returned,      \* the array the call resolved with
  rejections,    \* how many times the call in flight has rejected
  lastCommit,    \* index of the save that committed last, 0 when none has
  storeAtCall,   \* the store when the call in flight started
  observed,      \* per request hash: the highest block number delivered
  lastWrite,     \* per request hash: the branch that built the stored record
  clean,         \* no call has rejected so far
  repeatTx,      \* the batch a caller repeats, <<>> while it repeats none
  snaps          \* the store before the first repeated call, then the
                 \* store and the outcome after each repeated call

callVars ==
  <<phase, transactions, callbacks, getOrder, found, models, savePromises, returned,
    rejections, lastCommit, storeAtCall>>

histVars == <<observed, lastWrite, clean>>

repeatVars == <<repeatTx, snaps>>

vars == <<store, callVars, histVars, repeatVars>>

Init ==
  /\ store = {}
  /\ phase = "idle"
  /\ transactions = <<>>
  /\ callbacks = <<>>
  /\ getOrder = <<>>
  /\ found = <<>>
  /\ models = <<>>
  /\ savePromises = <<>>
  /\ returned = <<>>
  /\ rejections = 0
  /\ lastCommit = 0
  /\ storeAtCall = {}
  /\ observed = [h \in Hashes |-> 0]
  /\ lastWrite = [h \in Hashes |-> "none"]
  /\ clean = TRUE
  /\ repeatTx = <<>>
  /\ snaps = <<>>

\* every lookup and every save of the call has completed
Quiescent ==
  /\ \A i \in DOMAIN callbacks : callbacks[i] # "awaiting"
  /\ \A i \in DOMAIN savePromises : savePromises[i].state # "pending"

Max(a, b) == IF a > b THEN a ELSE b

\* the highest block number among the transactions of a batch for a hash
Delivered(batch, h, sofar) ==
  LET blocks == {BigNumber(batch[i].blockNumber) :
                   i \in {j \in DOMAIN batch : batch[j].stakeRequestHash = h}}
  IN IF blocks = {} THEN sofar
     ELSE Max(sofar, CHOOSE b \in blocks : \A c \in blocks : b >= c)

(***************************************************************************)
(* persist                                                                  *)
(***************************************************************************)
\* line 54 awaiting the first callback alone
FirstSettled(ms, batch) == 1 \in DOMAIN ms

\* line 54: Promise.all resolves once every callback has returned
AllSettled(ms, batch) == DOMAIN ms = DOMAIN batch

\* results kept in the order the callbacks returned
PlaceInCompletionOrder(ms, i, m) == ((Cardinality(DOMAIN ms) + 1) :> m) @@ ms

\* Promise.all keeps the results at the index of their promise (line 54)
Place(ms, i, m) == (i :> m) @@ ms

\* the loop of lines 90-94: one save per model, in index order
RECURSIVE PushSaves(_, _, _)
PushSaves(ms, i, acc) ==
  IF i > Cardinality(DOMAIN ms) THEN acc
  ELSE PushSaves(ms, i + 1, Append(acc, [model |-> ms[i], state |-> "pending"]))

\* the loop started one index late
IssueSavesSkipsFirst(ms) == PushSaves(ms, 2, <<>>)

\* the loop saving models[0] at every turn
IssueSavesOfFirst(ms) ==
  [i \in 1..Cardinality(DOMAIN ms) |-> [model |-> ms[1], state |-> "pending"]]

IssueSaves(ms) == PushSaves(ms, 1, <<>>)

\* a failed lookup swallowed: only the await of line 95 rejects
RejectsWhileSavingOnly(ph) == ph = "saving"

\* a failure swallowed: the awaited promise never settles
RejectsNoFailure(ph) == FALSE

\* every failure passed on to the caller
RejectsEveryFailure(ph) == ph \in {"resolving", "saving", "rejected"}

\* an awaited Promise.all that rejects makes persist reject; a promise that
\* has settled stays as it is
Rejects(ph) == ph \in {"resolving", "saving"}

\* persist(batch), up to the first await: lines 52-67 for every transaction
Call(batch) ==
  /\ phase = "idle"
  /\ transactions' = batch
  /\ callbacks' = [i \in DOMAIN batch |->
                     IF ParseThrows(batch[i]) THEN "threw" ELSE "awaiting"]
  /\ storeAtCall' = store
  /\ IF \E i \in DOMAIN batch : ParseThrows(batch[i])
     THEN phase' = "rejected" /\ rejections' = 1
     ELSE /\ phase' = IF batch = <<>> THEN "resolved" ELSE "resolving"
          /\ rejections' = 0
  /\ UNCHANGED <<store, getOrder, found, models, savePromises, returned,
                 lastCommit>>

\* the lookup of transaction i returns (line 67) and the callback runs to its
\* end (lines 68-86); when it is the last one, persist goes on to lines 90-94
GetReturns(i) ==
  /\ callbacks[i] = "awaiting"
  /\ LET existing == GetStakeRequest(store, transactions[i])
         ms == Place(models, i, Resolve(transactions[i], existing))
     IN /\ found' = (i :> existing) @@ found
        /\ models' = ms
        /\ IF phase = "resolving" /\ AllSettled(ms, transactions)
           THEN phase' = "saving" /\ savePromises' = IssueSaves(ms)
           ELSE UNCHANGED <<phase, savePromises>>
  /\ callbacks' = [callbacks EXCEPT ![i] = "returned"]
  /\ getOrder' = Append(getOrder, i)
  /\ UNCHANGED <<store, transactions, returned, rejections, lastCommit,
                 storeAtCall>>

\* the lookup of transaction i fails: Promise.all of line 54 rejects
GetFails(i) ==
  /\ callbacks[i] = "awaiting"
  /\ callbacks' = [callbacks EXCEPT ![i] = "failed"]
  /\ getOrder' = Append(getOrder, i)
  /\ IF Rejects(phase)
     THEN phase' = "rejected" /\ rejections' = rejections + 1
     ELSE UNCHANGED <<phase, rejections>>
  /\ UNCHANGED <<store, transactions, found, models, savePromises, returned,
                 lastCommit, storeAtCall>>

\* save i commits; when it is the last one, line 95 is passed and persist
\* returns models (line 98)
SaveCommits(i) ==
  /\ savePromises[i].state = "pending"
  /\ store' = SaveModel(store, savePromises[i].model)
  /\ savePromises' = [savePromises EXCEPT ![i].state = "committed"]
  /\ lastCommit' = i
  /\ IF /\ phase = "saving"
        /\ \A j \in DOMAIN savePromises' : savePromises'[j].state = "committed"
     THEN phase' = "resolved" /\ returned' = models
     ELSE UNCHANGED <<phase, returned>>
  /\ UNCHANGED <<transactions, callbacks, getOrder, found, models,
                 rejections, storeAtCall>>

\* save i fails: Promise.all of line 95 rejects, the other saves go on
SaveFails(i) ==
  /\ savePromises[i].state = "pending"
  /\ savePromises' = [savePromises EXCEPT ![i].state = "failed"]
  /\ IF Rejects(phase)
     THEN phase' = "rejected" /\ rejections' = rejections + 1
     ELSE UNCHANGED <<phase, rejections>>
  /\ UNCHANGED <<store, transactions, callbacks, getOrder, found, models,
                 returned, lastCommit, storeAtCall>>

\* The call is over: the caller has its outcome and every request the call
\* issued has completed.  The handler keeps nothing from one call to the
\* next; only the store remains.
Settle ==
  /\ phase \in {"resolved", "rejected"}
  /\ Quiescent
  /\ phase' = "idle"
  /\ transactions' = <<>>
  /\ callbacks' = <<>>
  /\ getOrder' = <<>>
  /\ found' = <<>>
  /\ models' = <<>>
  /\ savePromises' = <<>>
  /\ returned' = <<>>
  /\ rejections' = 0
  /\ lastCommit' = 0
  /\ storeAtCall' = {}
  /\ UNCHANGED store

(***************************************************************************)
(* The downstream process that links a request to its message               *)
(***************************************************************************)
SetMessageHash(h) ==
  /\ phase = "idle"
  /\ \E r \in store :
       /\ r.stakeRequestHash = h
       /\ r.messageHash = Undefined
       /\ store' = RepositorySave(store, [r EXCEPT !.messageHash = "0xMM"])
  /\ UNCHANGED callVars

(***************************************************************************)
(* Any caller, one call at a time                                           *)
(***************************************************************************)
Next ==
  \/ \E b \in Batches : Call(b) /\ UNCHANGED <<histVars, repeatVars>>
  \/ \E i \in DOMAIN callbacks :
       GetReturns(i) /\ UNCHANGED <<histVars, repeatVars>>
  \/ \E i \in DOMAIN callbacks :
       GetFails(i) /\ UNCHANGED <<histVars, repeatVars>>
  \/ \E i \in DOMAIN savePromises :
       SaveCommits(i) /\ UNCHANGED <<histVars, repeatVars>>
  \/ \E i \in DOMAIN savePromises :
       SaveFails(i) /\ UNCHANGED <<histVars, repeatVars>>
  \/ Settle /\ UNCHANGED <<histVars, repeatVars>>
  \/ \E h \in Hashes : SetMessageHash(h) /\ UNCHANGED <<histVars, repeatVars>>

Spec == Init /\ [][Next]_vars

(***************************************************************************)
(* Any caller, with the history of what was delivered and written           *)
(***************************************************************************)
TrackClean == clean' = (clean /\ phase' # "rejected")

NextHist ==
  \/ \E b \in Batches :
       /\ Call(b)
       /\ observed' = [h \in Hashes |-> Delivered(b, h, observed[h])]
       /\ TrackClean
       /\ UNCHANGED <<lastWrite, repeatVars>>
  \/ \E i \in DOMAIN callbacks :
       GetReturns(i) /\ UNCHANGED <<histVars, repeatVars>>
  \/ \E i \in DOMAIN callbacks :
       GetFails(i) /\ TrackClean /\ UNCHANGED <<observed, lastWrite, repeatVars>>
  \/ \E i \in DOMAIN savePromises :
       /\ SaveCommits(i)
       /\ lastWrite' =
            [lastWrite EXCEPT ![savePromises[i].model.stakeRequestHash] =
               Branch(transactions[i], found[i])]
       /\ UNCHANGED <<observed, clean, repeatVars>>
  \/ \E i \in DOMAIN savePromises :
       SaveFails(i) /\ TrackClean /\ UNCHANGED <<observed, lastWrite, repeatVars>>
  \/ Settle /\ UNCHANGED <<histVars, repeatVars>>
  \/ \E h \in Hashes : SetMessageHash(h) /\ UNCHANGED <<histVars, repeatVars>>

SpecHist == Init /\ [][NextHist]_vars

(***************************************************************************)
(* A caller that, from any store earlier calls have left, repeats one      *)
(* single-transaction batch                                                 *)
(***************************************************************************)
Snapshot == [store |-> store, phase |-> phase]

NextRepeat ==
  \/ \E t \in Transactions :
       /\ repeatTx = <<>>
       /\ Call(<<t>>)
       /\ UNCHANGED <<histVars, repeatVars>>
  \/ \E h \in Hashes :
       /\ repeatTx = <<>>
       /\ SetMessageHash(h)
       /\ UNCHANGED <<histVars, repeatVars>>
  \/ \E t \in Transactions :
       /\ repeatTx = <<>>
       /\ phase = "idle"
       /\ repeatTx' = <<t>>
       /\ snaps' = <<Snapshot>>
       /\ UNCHANGED <<store, callVars, histVars>>
  \/ /\ repeatTx # <<>>
     /\ Len(snaps) <= MaxRepeat
     /\ Call(repeatTx)
     /\ UNCHANGED <<histVars, repeatVars>>
  \/ \E i \in DOMAIN callbacks :
       GetReturns(i) /\ UNCHANGED <<histVars, repeatVars>>
  \/ \E i \in DOMAIN callbacks :
       GetFails(i) /\ UNCHANGED <<histVars, repeatVars>>
  \/ \E i \in DOMAIN savePromises :
       SaveCommits(i) /\ UNCHANGED <<histVars, repeatVars>>
  \/ \E i \in DOMAIN savePromises :
       SaveFails(i) /\ UNCHANGED <<histVars, repeatVars>>
  \/ /\ Settle
     /\ snaps' = IF repeatTx = <<>> THEN snaps ELSE Append(snaps, Snapshot)
     /\ UNCHANGED <<histVars, repeatTx>>

SpecRepeat == Init /\ [][NextRepeat]_vars

(***************************************************************************)
(* Any caller, over a repository that answers every request it is sent      *)
(***************************************************************************)
\* the get of line 67 for transaction i completes, with a value or a failure
CompleteGet(i) ==
  /\ i \in DOMAIN callbacks
  /\ GetReturns(i) \/ GetFails(i)
  /\ UNCHANGED <<histVars, repeatVars>>

\* the save of line 93 for model i completes, with a value or a failure
CompleteSave(i) ==
  /\ i \in DOMAIN savePromises
  /\ SaveCommits(i) \/ SaveFails(i)
  /\ UNCHANGED <<histVars, repeatVars>>

RepositoryAnswers ==
  \A i \in 1..MaxBatch : WF_vars(CompleteGet(i)) /\ WF_vars(CompleteSave(i))

SpecLive == Init /\ [][Next]_vars /\ RepositoryAnswers

(***************************************************************************)
(* Properties                                                               *)
(***************************************************************************)
\* the normalized value of every field of every transaction
Normalized ==
  [t \in Transactions |->
     [stakeRequestHash |-> t.stakeRequestHash,
      amount |-> BigNumber(t.amount),
      beneficiary |-> toChecksumAddress(t.beneficiary),
      gasPrice |-> BigNumber(t.gasPrice),
      gasLimit |-> BigNumber(t.gasLimit),
      nonce |-> BigNumber(t.nonce),
      gateway |-> toChecksumAddress(t.gateway),
      staker |-> toChecksumAddress(t.staker),
      stakerProxy |-> toChecksumAddress(t.stakerProxy),
      blockNumber |-> BigNumber(t.blockNumber)]]

\* every field of m but messageHash is the normalized field of t
MatchesInput(m, t) ==
  LET n == Normalized[t]
  IN /\ m.stakeRequestHash = n.stakeRequestHash
     /\ m.amount = n.amount
     /\ m.beneficiary = n.beneficiary
     /\ m.gasPrice = n.gasPrice
     /\ m.gasLimit = n.gasLimit
     /\ m.nonce = n.nonce
     /\ m.gateway = n.gateway
     /\ m.staker = n.staker
     /\ m.stakerProxy = n.stakerProxy
     /\ m.blockNumber = n.blockNumber

\* m has the terms and the key of the record old
KeepsTerms(m, old) ==
  /\ m.stakeRequestHash = old.stakeRequestHash
  /\ m.amount = old.amount
  /\ m.beneficiary = old.beneficiary
  /\ m.gasPrice = old.gasPrice
  /\ m.gasLimit = old.gasLimit
  /\ m.nonce = old.nonce
  /\ m.gateway = old.gateway
  /\ m.staker = old.staker
  /\ m.stakerProxy = old.stakerProxy

\* the record the call holds for transaction i is the one it saves and returns
SavedAndReturned(i) ==
  /\ i \in DOMAIN savePromises => savePromises[i].model = models[i]
  /\ phase = "resolved" => returned[i] = models[i]

IsNumber(n) == n # NaN

\* C1: for a transaction whose request hash had no record when it was looked
\* up, the record persist resolves, saves and returns is a new record: every
\* field is the normalized field of the transaction and messageHash is absent.
C1_FirstObservationCreatesRecord ==
  \A i \in DOMAIN models :
    found[i] = {} =>
      /\ MatchesInput(models[i], transactions[i])
      /\ models[i].messageHash = Undefined
      /\ SavedAndReturned(i)

\* C1 happens: TxA100 was persisted into a store without 0xAA; the stored
\* record holds the parsed amount 10 and the checksummed beneficiary
C1_Witness ==
  /\ phase = "resolved"
  /\ \E i \in DOMAIN models :
       /\ found[i] = {}
       /\ transactions[i] = TxA100
       /\ models[i].amount = 10
       /\ models[i].beneficiary = <<"A", "b">>
       /\ models[i].gateway = <<"C", "d">>
       /\ models[i] \in store

\* C2: for a transaction whose request hash had a record at block b when it
\* was looked up and whose own block b' is greater than b, the resolved record
\* has blockNumber b', no messageHash, and every other field of the record
\* that was stored, not of the transaction.
C2_HigherBlockKeepsStoredTerms ==
  \A i \in DOMAIN models :
    \A old \in found[i] :
      ( /\ IsNumber(old.blockNumber)
        /\ IsNumber(Normalized[transactions[i]].blockNumber)
        /\ Normalized[transactions[i]].blockNumber > old.blockNumber )
      =>
      /\ models[i].blockNumber = Normalized[transactions[i]].blockNumber
      /\ models[i].messageHash = Undefined
      /\ KeepsTerms(models[i], old)

\* C2 happens: a record at block 100 with its messageHash set met TxA105,
\* whose terms differ, and the record saved keeps the amount 10 at block 105
C2_Witness ==
  /\ phase = "resolved"
  /\ \E i \in DOMAIN models :
       \E old \in found[i] :
         /\ transactions[i] = TxA105
         /\ old.blockNumber = 100
         /\ old.messageHash = "0xMM"
         /\ old.amount = 10
         /\ Normalized[transactions[i]].amount = 99
         /\ models[i].blockNumber = 105
         /\ models[i] \in store

\* C3: for a transaction whose request hash had a record at block b when it
\* was looked up and whose own block b' is at most b, the resolved record is
\* built from the transaction alone: every field is the normalized field of
\* the transaction and messageHash is absent.
C3_LowerOrEqualBlockReplaces ==
  \A i \in DOMAIN models :
    \A old \in found[i] :
      ( /\ IsNumber(old.blockNumber)
        /\ IsNumber(Normalized[transactions[i]].blockNumber)
        /\ Normalized[transactions[i]].blockNumber <= old.blockNumber )
      =>
      /\ MatchesInput(models[i], transactions[i])
      /\ models[i].messageHash = Undefined
      /\ SavedAndReturned(i)

\* C3 happens: a record at block 105 with terms of TxA105 and its messageHash
\* set met TxA100; the stored block number went back from 105 to 100, the
\* messageHash and the stored amount are gone
C3_Witness ==
  /\ phase = "resolved"
  /\ \E i \in DOMAIN models :
       \E old \in found[i] :
         /\ transactions[i] = TxA100
         /\ old.blockNumber = 105
         /\ old.messageHash = "0xMM"
         /\ old.amount = 99
         /\ RepositoryGet(store, "0xAA") = {models[i]}
         /\ models[i].blockNumber = 100
         /\ models[i].amount = 10

\* C4: a call that resolves returns one record per transaction, and the i-th
\* record is the one resolved for the i-th transaction, whatever the order in
\* which the lookups completed.
C4_OneRecordPerTransactionInOrder ==
  phase = "resolved" =>
    /\ Len(returned) = Len(transactions)
    /\ \A i \in DOMAIN transactions :
         /\ returned[i] = Resolve(transactions[i], found[i])
         /\ returned[i].stakeRequestHash = transactions[i].stakeRequestHash
         /\ returned[i].blockNumber = Normalized[transactions[i]].blockNumber

\* C4 happens: a batch of two request hashes resolved after the lookup of the
\* second transaction completed before the lookup of the first
C4_Witness ==
  /\ phase = "resolved"
  /\ Len(transactions) = 2
  /\ transactions[1].stakeRequestHash # transactions[2].stakeRequestHash
  /\ getOrder = <<2, 1>>
  /\ returned[1].stakeRequestHash = "0xAA"
  /\ returned[2].stakeRequestHash = "0xBB"

\* a numeric field that is no decimal string, or an address field that is no
\* hex address
Malformed(t) ==
  \/ \E k \in 1..5 : ~IsNumber(BigNumber(NumericFields(t)[k]))
  \/ \E k \in 1..4 : ~IsAddress(AddressFields(t)[k])

\* C5: a call whose batch holds a transaction with a malformed numeric or
\* address field does not resolve and saves nothing: the store stays what it
\* was when the call started.
C5_MalformedBatchSavesNothing ==
  (\E i \in DOMAIN transactions : Malformed(transactions[i])) =>
    /\ phase # "resolved"
    /\ store = storeAtCall

\* the half of C5 that the code keeps: a malformed address rejects the call
\* at once and nothing of the batch is saved
MalformedAddressSavesNothing ==
  (\E i \in DOMAIN transactions : ParseThrows(transactions[i])) =>
    /\ phase = "rejected"
    /\ savePromises = <<>>
    /\ store = storeAtCall

\* C6: after a call resolves on a batch of two transactions of one request
\* hash that had no record when the call started, the store holds exactly one
\* record of that hash: the new record built from the transaction whose save
\* committed last, whole.
C6_DuplicateHashLastSaveWins ==
  ( /\ phase = "resolved"
    /\ Len(transactions) = 2
    /\ transactions[1].stakeRequestHash = transactions[2].stakeRequestHash
    /\ RepositoryGet(storeAtCall, transactions[1].stakeRequestHash) = {} )
  =>
  LET stored == RepositoryGet(store, transactions[1].stakeRequestHash)
  IN /\ Cardinality(stored) = 1
     /\ lastCommit \in {1, 2}
     /\ \A r \in stored :
          /\ MatchesInput(r, transactions[lastCommit])
          /\ r.messageHash = Undefined

\* C6 happens: TxA100 and TxA105 in one batch, no record of 0xAA before, and
\* the save of the first transaction committed last: the record is TxA100's
C6_Witness ==
  /\ phase = "resolved"
  /\ transactions = <<TxA100, TxA105>>
  /\ RepositoryGet(storeAtCall, "0xAA") = {}
  /\ lastCommit = 1
  /\ \E r \in store : r.blockNumber = 100 /\ r.amount = 10

\* C8: when a save fails the call has rejected, once; a save of the batch
\* that committed stays committed: its request hash still holds a record that
\* a committed save of the batch wrote.
C8_SaveFailureRejectsOnceNoRollback ==
  /\ (\E i \in DOMAIN savePromises : savePromises[i].state = "failed") =>
       phase = "rejected" /\ rejections = 1
  /\ rejections <= 1
  /\ \A i \in DOMAIN savePromises :
       savePromises[i].state = "committed" =>
         \E j \in DOMAIN savePromises :
           /\ savePromises[j].state = "committed"
           /\ savePromises[j].model.stakeRequestHash =
                savePromises[i].model.stakeRequestHash
           /\ savePromises[j].model \in store

\* C8 happens: the call has rejected and every save has completed; the record
\* of 0xAA is persisted and the record of 0xBB, whose save failed, is not
C8_Witness ==
  /\ phase = "rejected"
  /\ Quiescent
  /\ transactions = <<TxA100, TxB100>>
  /\ Len(savePromises) = 2
  /\ savePromises[1].state = "committed"
  /\ savePromises[2].state = "failed"
  /\ savePromises[1].model \in store
  /\ RepositoryGet(storeAtCall, "0xAA") = {}
  /\ RepositoryGet(store, "0xBB") = {}

\* C9: when a call has resolved, one save was issued for each resolved
\* record, in their order, and every one of them has committed: none is
\* pending.
C9_ResolvedMeansEverySaveCommitted ==
  phase = "resolved" =>
    /\ Len(savePromises) = Len(transactions)
    /\ DOMAIN models = DOMAIN transactions
    /\ \A i \in DOMAIN savePromises :
         /\ savePromises[i].model = models[i]
         /\ savePromises[i].state = "committed"

\* C9 happens: a batch of two transactions resolved with both saves committed
C9_Witness ==
  /\ phase = "resolved"
  /\ Len(returned) = 2
  /\ Len(savePromises) = 2
  /\ \A i \in 1..2 : savePromises[i].model \in store

\* C7: between calls, the block number of every stored record is the highest
\* block number delivered for its request hash, unless the record was last
\* written by the replacement of an equal-or-lower-block delivery.  Stated
\* over the histories in which no call rejected.
C7_StoredBlockIsHighestObserved ==
  (phase = "idle" /\ clean) =>
    \A r \in store :
      \/ r.blockNumber = observed[r.stakeRequestHash]
      \/ lastWrite[r.stakeRequestHash] = "replace"

\* C10: a caller repeats one single-transaction batch whose block number is
\* at most the block number stored for its request hash.  Once the first call
\* has resolved, the store holds for that hash the record built from the
\* transaction, without messageHash, and the store after every later call is
\* the store after the first.
C10_RepeatAtNonAdvancingBlockIsIdempotent ==
  ( /\ Len(snaps) >= 2
    /\ snaps[2].phase = "resolved"
    /\ \E old \in RepositoryGet(snaps[1].store, repeatTx[1].stakeRequestHash) :
         /\ IsNumber(old.blockNumber)
         /\ IsNumber(Normalized[repeatTx[1]].blockNumber)
         /\ Normalized[repeatTx[1]].blockNumber <= old.blockNumber )
  =>
  /\ \A r \in RepositoryGet(snaps[2].store, repeatTx[1].stakeRequestHash) :
       MatchesInput(r, repeatTx[1]) /\ r.messageHash = Undefined
  /\ Cardinality(RepositoryGet(snaps[2].store, repeatTx[1].stakeRequestHash)) = 1
  /\ \A k \in 3..Len(snaps) : snaps[k].store = snaps[2].store

\* C10 happens: TxA100 was persisted three times over a record of 0xAA at
\* block 105 with its messageHash set; all three calls resolved and left the
\* same store
C10_Witness ==
  /\ Len(snaps) = 4
  /\ repeatTx = <<TxA100>>
  /\ \E old \in snaps[1].store :
       /\ old.stakeRequestHash = "0xAA"
       /\ old.blockNumber = 105
       /\ old.amount = 99
       /\ old.messageHash = "0xMM"
  /\ \A k \in 2..4 : snaps[k].phase = "resolved"
  /\ snaps[3].store = snaps[2].store
  /\ snaps[4].store = snaps[2].store
  /\ \E r \in snaps[2].store : r.blockNumber = 100 /\ r.amount = 10

\* the request hashes of the batch of the call
BatchHashes == {transactions[i].stakeRequestHash : i \in DOMAIN transactions}

\* C11: every record the call holds, passes to save or returns has no
\* messageHash, whichever branch built it; once the call has resolved, the
\* stored record of every request hash of the batch has no messageHash.
C11_MessageHashAlwaysCleared ==
  /\ \A i \in DOMAIN models : models[i].messageHash = Undefined
  /\ \A i \in DOMAIN savePromises :
       savePromises[i].model.messageHash = Undefined
  /\ \A i \in DOMAIN returned : returned[i].messageHash = Undefined
  /\ phase = "resolved" =>
       \A r \in store :
         r.stakeRequestHash \in BatchHashes => r.messageHash = Undefined

\* C11 happens: a record whose messageHash was set met a higher block, the
\* call resolved through the mutation of lines 70-71 and the stored record
\* has no messageHash
C11_Witness ==
  /\ phase = "resolved"
  /\ transactions = <<TxA105>>
  /\ \E old \in found[1] : old.messageHash = "0xMM" /\ old.blockNumber = 100
  /\ \E r \in store :
       /\ r.stakeRequestHash = "0xAA"
       /\ r.blockNumber = 105
       /\ r.amount = 10
       /\ r.messageHash = Undefined

\* C12: no save of a call is issued before the lookup and the decision of
\* every transaction of its batch have completed; so every lookup of the call
\* reads the store as it was when the call started, and two transactions of
\* one request hash decide against the same stored record, or the same
\* absence.
C12_DecisionsPrecedeSaves ==
  /\ savePromises # <<>> =>
       \A i \in DOMAIN transactions : callbacks[i] = "returned"
  /\ (\E i \in DOMAIN callbacks : callbacks[i] = "awaiting") =>
       store = storeAtCall
  /\ \A i \in DOMAIN found :
       found[i] = RepositoryGet(storeAtCall, transactions[i].stakeRequestHash)
  /\ \A i, j \in DOMAIN found :
       transactions[i].stakeRequestHash = transactions[j].stakeRequestHash
         => found[i] = found[j]

\* C12 happens: TxA105 and TxA100 in one batch over a record of 0xAA at block
\* 100; both lookups returned that record, the first save has committed block
\* 105 and the second transaction was still decided against block 100
C12_Witness ==
  /\ transactions = <<TxA105, TxA100>>
  /\ Len(savePromises) = 2
  /\ savePromises[1].state = "committed"
  /\ found[1] = found[2]
  /\ \E old \in found[2] : old.blockNumber = 100
  /\ \E r \in store : r.stakeRequestHash = "0xAA" /\ r.blockNumber = 105
  /\ store # storeAtCall

\* C13: when the lookup of a transaction of the batch has failed, the call
\* has rejected, no save of the batch has been issued and the store is what
\* it was when the call started.
C13_FailedLookupRejectsWithoutSaving ==
  (\E i \in DOMAIN callbacks : callbacks[i] = "failed") =>
    /\ phase = "rejected"
    /\ rejections = 1
    /\ savePromises = <<>>
    /\ store = storeAtCall

\* C13 happens: of a batch of two, the lookup of the second transaction
\* failed and the lookup of the first returned; the call has rejected and
\* nothing was saved, the record the first callback resolved included
C13_Witness ==
  /\ phase = "rejected"
  /\ transactions = <<TxA100, TxB100>>
  /\ callbacks = <<"returned", "failed">>
  /\ 1 \in DOMAIN models
  /\ savePromises = <<>>
  /\ store = storeAtCall
  /\ RepositoryGet(store, "0xAA") = {}

\* the request hashes that have a stored record
StoredHashes(st) == {r.stakeRequestHash : r \in st}

\* C14: persist deletes no record.  During and after a call, resolved or
\* rejected, every request hash that was stored when the call started is
\* stored; and no step ever takes a request hash out of the store.
C14_NoRecordIsDeleted ==
  /\ [](phase # "idle" => StoredHashes(storeAtCall) \subseteq StoredHashes(store))
  /\ [][StoredHashes(store) \subseteq StoredHashes(store')]_vars

\* C14 happens: over a stored record of 0xAA a call for 0xAA and 0xBB has
\* rejected, the save for 0xAA having failed and the save for 0xBB having
\* committed: 0xAA is still stored and 0xBB has been added
C14_Witness ==
  /\ phase = "rejected"
  /\ Quiescent
  /\ transactions = <<TxA105, TxB100>>
  /\ StoredHashes(storeAtCall) = {"0xAA"}
  /\ Len(savePromises) = 2
  /\ savePromises[1].state = "failed"
  /\ savePromises[2].state = "committed"
  /\ StoredHashes(store) = {"0xAA", "0xBB"}

\* the records of st whose request hash is not in the batch of the call
Outside(st) == {r \in st : r.stakeRequestHash \notin BatchHashes}

\* C15: a call reads and writes only records whose request hash is the hash
\* of a transaction of its batch: every lookup returns a record of the hash
\* of its transaction, every save is for a hash of the batch, and the stored
\* records of every other hash are, during and after the call, resolved or
\* rejected, the ones stored when it started.
C15_OtherRecordsUntouched ==
  phase # "idle" =>
    /\ \A i \in DOMAIN found :
         \A r \in found[i] :
           r.stakeRequestHash = transactions[i].stakeRequestHash
    /\ \A i \in DOMAIN savePromises :
         savePromises[i].model.stakeRequestHash \in BatchHashes
    /\ Outside(store) = Outside(storeAtCall)

\* C15 happens: a call for 0xAA alone resolved and rewrote the record of 0xAA
\* while the record of 0xBB, its messageHash set, is stored as it was
C15_Witness ==
  /\ phase = "resolved"
  /\ transactions = <<TxA105>>
  /\ found[1] # {}
  /\ store # storeAtCall
  /\ \E r \in Outside(store) :
       /\ r.stakeRequestHash = "0xBB"
       /\ r.messageHash = "0xMM"
       /\ r \in storeAtCall

\* the stored record of the repeated transaction's hash after the calls that
\* snaps[k] closes
RepeatedRecord(k) == RepositoryGet(snaps[k].store, repeatTx[1].stakeRequestHash)

\* C16: a caller repeats one single-transaction batch over any store.  Once
\* two of its calls have resolved, the store holds for the hash exactly one
\* record, built from the transaction and without messageHash, and the store
\* after every later call is that store.
C16_RepeatReachesFixedPointInTwoCalls ==
  \A j, k \in 2..Len(snaps) :
    (j < k /\ snaps[j].phase = "resolved" /\ snaps[k].phase = "resolved") =>
      /\ Cardinality(RepeatedRecord(k)) = 1
      /\ \A r \in RepeatedRecord(k) :
           MatchesInput(r, repeatTx[1]) /\ r.messageHash = Undefined
      /\ \A n \in (k + 1)..Len(snaps) : snaps[n].store = snaps[k].store

\* C16 happens: TxA105 was persisted three times over a record of 0xAA at
\* block 100 with amount 10; the first call kept the amount and raised the
\* block, the second replaced the record, the third left the store as it was
C16_Witness ==
  /\ Len(snaps) = 4
  /\ repeatTx = <<TxA105>>
  /\ \A k \in 2..4 : snaps[k].phase = "resolved"
  /\ \E old \in RepeatedRecord(1) : old.blockNumber = 100 /\ old.amount = 10
  /\ \E r \in RepeatedRecord(2) : r.blockNumber = 105 /\ r.amount = 10
  /\ \E r \in RepeatedRecord(3) : r.blockNumber = 105 /\ r.amount = 99
  /\ snaps[2].store # snaps[3].store
  /\ snaps[4].store = snaps[3].store

\* C17: over a repository that completes every get and every save, with a
\* value or a failure, every call that waits for a lookup or for a save
\* eventually resolves or rejects.  (A call whose batch is empty or fails to
\* parse has its outcome before it waits at all.)
C17_EveryCallCompletes ==
  (phase \in {"resolving", "saving"}) ~> (phase \in {"resolved", "rejected"})

\* C17 happens: a call of two transactions waited for both lookups, which
\* returned second first, then for both saves, which committed second first,
\* and resolved with both records
C17_Witness ==
  /\ phase = "resolved"
  /\ transactions = <<TxB100, TxA105>>
  /\ getOrder = <<2, 1>>
  /\ lastCommit = 1
  /\ Len(savePromises) = 2
  /\ \A i \in 1..2 : savePromises[i].state = "committed"
  /\ Len(returned) = 2

====
